---- MODULE Spec2Model ----
(***************************************************************************)
(* A model of src/Birdgame.py: the Bird, the Pipe collection and the frame *)
(* loop of Game.run.                                                       *)
(*                                                                         *)
(* Units.  Bird.y and Bird.velocity are Python floats that only ever hold  *)
(* multiples of 0.5 (GRAVITY = 0.5, every other quantity is an integer),   *)
(* so the model stores them in HALF-PIXELS: a stored y of 601 is the float *)
(* 300.5.  Every other length (bird.x, bird.size, pipe.x, gap_y and the    *)
(* fields of a pygame.Rect) is an integer number of pixels.                *)
(***************************************************************************)
EXTENDS Integers, Sequences, FiniteSets

(* ---------------- program constants (src/Birdgame.py 9-16) ------------- *)
SCREEN_WIDTH == 400
SCREEN_HEIGHT == 600
PIPE_WIDTH == 80
PIPE_GAP == 150
\* half-pixels per pixel: the resolution that makes GRAVITY = 0.5 an integer
Half == 2
\* GRAVITY = 0.5 pixel per frame, i.e. one half-pixel
GRAVITY == 1
\* JUMP_STRENGTH, in pixels per frame
JUMP_STRENGTH == -10
\* Bird.__init__
BIRD_X == 50
BIRD_SIZE == 20
\* Pipe.__init__
PIPE_VELOCITY == -4
\* the threshold of the spawn counter in Game._manage_pipes
SPAWN_THRESHOLD == 90

(* ---------------- bounds of the model ---------------------------------- *)
\* longest list of events one call of pygame.event.get() returns
MaxEvents == 2
\* frames of a session are explored until its score reaches MaxScore
MaxScore == 2
\* the modelled player presses keys while Playing only at the top of the
\* bird's arc (velocity 0) or while it falls at MinFallTap..MaxFallTap
\* half-pixels per frame; while Over the player may press keys in any frame
MinFallTap == 18
MaxFallTap == 20
\* random.randint(PIPE_GAP, SCREEN_HEIGHT - PIPE_GAP) is sampled at
\* GapSteps + 1 evenly spaced values including both ends of the range
GapSteps == 2

TapVelocities == {0} \cup (MinFallTap..MaxFallTap)

\* gap centres drawn from the whole height of the screen
GapChoices_WholeScreen ==
  { (k * SCREEN_HEIGHT) \div GapSteps : k \in 0..GapSteps }

GapChoices ==
  { PIPE_GAP + (k * (SCREEN_HEIGHT - 2 * PIPE_GAP)) \div GapSteps : k \in 0..GapSteps }

EventKinds == {"QUIT", "SPACE", "KEY_OTHER"}

RECURSIVE SeqsUpTo(_, _)
SeqsUpTo(S, n) ==
  IF n = 0 THEN {<< >>}
  ELSE LET shorter == SeqsUpTo(S, n - 1)
       IN  shorter \cup { Append(s, e) : s \in shorter, e \in S }

EventLists == SeqsUpTo(EventKinds, MaxEvents)

VARIABLES bird, pipes, score, game_over, pipe_spawn_counter, events, pc

vars == <<bird, pipes, score, game_over, pipe_spawn_counter, events, pc>>

Min(a, b) == IF a < b THEN a ELSE b
Max(a, b) == IF a > b THEN a ELSE b

(* ---------------- Bird -------------------------------------------------- *)
\* Bird.__init__ : y and velocity in half-pixels
NewBird ==
  [x |-> BIRD_X, y |-> Half * (SCREEN_HEIGHT \div 2), size |-> BIRD_SIZE, velocity |-> 0]

\* a jump that adds the impulse to the current velocity
jump_Accumulates(b) == [b EXCEPT !.velocity = b.velocity + Half * JUMP_STRENGTH]

\* Bird.jump
jump(b) == [b EXCEPT !.velocity = Half * JUMP_STRENGTH]

\* a move that advances y by the velocity of the previous frame
move_bird_StaleVelocity(b) ==
  [b EXCEPT !.velocity = b.velocity + GRAVITY, !.y = b.y + b.velocity]

\* Bird.move
move_bird(b) ==
  LET v == b.velocity + GRAVITY
  IN  [b EXCEPT !.velocity = v, !.y = b.y + v]

\* pygame.Rect converts a float coordinate to int by truncation toward zero
TruncToInt(halves) ==
  IF halves >= 0 THEN halves \div Half ELSE -((-halves) \div Half)

\* Bird.get_rect
get_rect(b) ==
  [left |-> b.x, top |-> TruncToInt(b.y), w |-> b.size, h |-> b.size]

(* ---------------- Pipe -------------------------------------------------- *)
\* Pipe.__init__
NewPipe(x, gap_y) ==
  [x |-> x, gap_y |-> gap_y, velocity |-> PIPE_VELOCITY, passed |-> FALSE]

\* Pipe.move
move_pipe(p) == [p EXCEPT !.x = p.x + p.velocity]

\* an off-screen test against the width of the screen
off_screen_ScreenWidth(p) == p.x < -SCREEN_WIDTH

\* an off-screen test that already fires when the right edge is at x = 0
off_screen_Inclusive(p) == p.x <= -PIPE_WIDTH

\* an off-screen test on the left (leading) edge instead of the right one
off_screen_LeadingEdge(p) == p.x < 0

\* Pipe.off_screen
off_screen(p) == p.x < -PIPE_WIDTH

\* Pipe.get_upper_rect
get_upper_rect(p) ==
  [left |-> p.x, top |-> 0, w |-> PIPE_WIDTH, h |-> p.gap_y - PIPE_GAP \div 2]

\* Pipe.get_lower_rect
get_lower_rect(p) ==
  [left |-> p.x, top |-> p.gap_y + PIPE_GAP \div 2, w |-> PIPE_WIDTH, h |-> SCREEN_HEIGHT]

\* pygame.Rect.colliderect: strict overlap, false for an empty rectangle
colliderect(A, B) ==
  /\ A.w # 0 /\ A.h # 0 /\ B.w # 0 /\ B.h # 0
  /\ Min(A.left, A.left + A.w) < Max(B.left, B.left + B.w)
  /\ Min(A.top, A.top + A.h) < Max(B.top, B.top + B.h)
  /\ Max(A.left, A.left + A.w) > Min(B.left, B.left + B.w)
  /\ Max(A.top, A.top + A.h) > Min(B.top, B.top + B.h)

(* ---------------- Game -------------------------------------------------- *)
\* a collision check without the test of the bottom of the screen
collision_detected_NoFloor(b, ps) ==
  LET bird_rect == get_rect(b)
  IN  \/ \E i \in DOMAIN ps :
            \/ colliderect(bird_rect, get_upper_rect(ps[i]))
            \/ colliderect(bird_rect, get_lower_rect(ps[i]))
      \/ bird_rect.top < 0

\* the verdict of Game._check_collisions on a bird and a pipe list
collision_detected(b, ps) ==
  LET bird_rect == get_rect(b)
  IN  \/ \E i \in DOMAIN ps :
            \/ colliderect(bird_rect, get_upper_rect(ps[i]))
            \/ colliderect(bird_rect, get_lower_rect(ps[i]))
      \/ bird_rect.top < 0
      \/ bird_rect.top + bird_rect.h > SCREEN_HEIGHT

\* a spawn that is followed by the advance of the new pipe in the same frame
spawn_pipes_Advanced(ps, counter, gap_y) ==
  IF counter > SPAWN_THRESHOLD
  THEN Append(ps, NewPipe(SCREEN_WIDTH + PIPE_VELOCITY, gap_y))
  ELSE ps

\* a spawn that inserts the new pipe at the front of the list
spawn_pipes_AtFront(ps, counter, gap_y) ==
  IF counter > SPAWN_THRESHOLD THEN <<NewPipe(SCREEN_WIDTH, gap_y)>> \o ps ELSE ps

\* a spawn test that fires as soon as the counter reaches the threshold
spawn_pipes_AtThreshold(ps, counter, gap_y) ==
  IF counter >= SPAWN_THRESHOLD THEN Append(ps, NewPipe(SCREEN_WIDTH, gap_y)) ELSE ps

\* the pipe list after the spawn step of Game._manage_pipes
spawn_pipes(ps, counter, gap_y) ==
  IF counter > SPAWN_THRESHOLD THEN Append(ps, NewPipe(SCREEN_WIDTH, gap_y)) ELSE ps

\* a pruning that drops every pipe that is behind the bird
prune_pipes_BehindBird(ps) == SelectSeq(ps, LAMBDA p : ~(p.x + PIPE_WIDTH < BIRD_X))

\* the list comprehension of Game._manage_pipes that drops off-screen pipes
prune_pipes(ps) == SelectSeq(ps, LAMBDA p : ~off_screen(p))

\* a scoring test on the left (leading) edge of the pipe
newly_passed_LeadingEdge(p, b) == p.x < b.x /\ ~p.passed

\* the test of the scoring loop of Game._manage_pipes
newly_passed(p, b) == p.x + PIPE_WIDTH < b.x /\ ~p.passed

\* a scoring loop that forgets to set pipe.passed
mark_passed_NoFlag(ps, b) == ps

\* the pipe list after the scoring loop of Game._manage_pipes
mark_passed(ps, b) ==
  [i \in DOMAIN ps |-> IF newly_passed(ps[i], b) THEN [ps[i] EXCEPT !.passed = TRUE] ELSE ps[i]]

\* a score recounted from the passed pipes still in the list
score_after_Recount(ps, b, s) ==
  Cardinality({i \in DOMAIN ps : ps[i].passed \/ newly_passed(ps[i], b)})

\* the score after the scoring loop of Game._manage_pipes
score_after(ps, b, s) ==
  s + Cardinality({i \in DOMAIN ps : newly_passed(ps[i], b)})

\* Game.__init__ ends in reset_game; the loop of run has not started
Init ==
  /\ bird = NewBird
  /\ pipes = << >>
  /\ score = 0
  /\ game_over = FALSE
  /\ pipe_spawn_counter = 0
  /\ events = << >>
  /\ pc = "poll"

\* a reset that forgets the spawn counter
reset_game_KeepsCounter ==
  /\ bird' = NewBird
  /\ pipes' = << >>
  /\ score' = 0
  /\ game_over' = FALSE
  /\ UNCHANGED pipe_spawn_counter

\* Game.reset_game
reset_game ==
  /\ bird' = NewBird
  /\ pipes' = << >>
  /\ score' = 0
  /\ game_over' = FALSE
  /\ pipe_spawn_counter' = 0

\* the frames in which the modelled player produces input
PlayerActs == game_over \/ bird.velocity \in TapVelocities

\* Game._handle_events: pygame.event.get() returns the pending events
Poll ==
  /\ pc = "poll"
  /\ game_over \/ score < MaxScore
  /\ \E evs \in EventLists :
        /\ evs # << >> => PlayerActs
        /\ events' = evs
  /\ pc' = "handle"
  /\ UNCHANGED <<bird, pipes, score, game_over, pipe_spawn_counter>>

\* an event loop whose restart branch lacks the test of event.key
HandleEvent_AnyKeyRestarts ==
  /\ pc = "handle"
  /\ events # << >>
  /\ LET event == Head(events)
     IN  IF event = "QUIT"
         THEN /\ pc' = "quit"
              /\ UNCHANGED <<bird, pipes, score, game_over, pipe_spawn_counter, events>>
         ELSE /\ pc' = "handle"
              /\ events' = Tail(events)
              /\ IF event = "SPACE" /\ ~game_over
                 THEN /\ bird' = jump(bird)
                      /\ UNCHANGED <<pipes, score, game_over, pipe_spawn_counter>>
                 ELSE IF game_over
                 THEN reset_game
                 ELSE UNCHANGED <<bird, pipes, score, game_over, pipe_spawn_counter>>

\* an event loop with the two KEYDOWN tests in the other order: the restart
\* test runs first, and the jump test then sees game_over False
HandleEvent_RestartThenJump ==
  /\ pc = "handle"
  /\ events # << >>
  /\ LET event == Head(events)
     IN  IF event = "QUIT"
         THEN /\ pc' = "quit"
              /\ UNCHANGED <<bird, pipes, score, game_over, pipe_spawn_counter, events>>
         ELSE /\ pc' = "handle"
              /\ events' = Tail(events)
              /\ IF event = "SPACE" /\ ~game_over
                 THEN /\ bird' = jump(bird)
                      /\ UNCHANGED <<pipes, score, game_over, pipe_spawn_counter>>
                 ELSE IF event = "SPACE" /\ game_over
                 THEN /\ bird' = jump(NewBird)
                      /\ pipes' = << >>
                      /\ score' = 0
                      /\ game_over' = FALSE
                      /\ pipe_spawn_counter' = 0
                 ELSE UNCHANGED <<bird, pipes, score, game_over, pipe_spawn_counter>>

\* Game._handle_events: one iteration of the loop over the events.  The two
\* KEYDOWN tests run one after the other; jump leaves game_over False, so
\* the second test cannot fire after the first did.
HandleEvent ==
  /\ pc = "handle"
  /\ events # << >>
  /\ LET event == Head(events)
     IN  IF event = "QUIT"
         THEN \* quit_game: pygame.quit(); sys.exit()
              /\ pc' = "quit"
              /\ UNCHANGED <<bird, pipes, score, game_over, pipe_spawn_counter, events>>
         ELSE /\ pc' = "handle"
              /\ events' = Tail(events)
              /\ IF event = "SPACE" /\ ~game_over
                 THEN /\ bird' = jump(bird)
                      /\ UNCHANGED <<pipes, score, game_over, pipe_spawn_counter>>
                 ELSE IF event = "SPACE" /\ game_over
                 THEN reset_game
                 ELSE UNCHANGED <<bird, pipes, score, game_over, pipe_spawn_counter>>

\* a frame loop that moves the bird without testing game_over
BirdMove_NoGuard ==
  /\ pc = "handle"
  /\ events = << >>
  /\ bird' = move_bird(bird)
  /\ pc' = "pipes_move"
  /\ UNCHANGED <<pipes, score, game_over, pipe_spawn_counter, events>>

\* Game.run: self.bird.move() in the branch "if not self.game_over"
BirdMove ==
  /\ pc = "handle"
  /\ events = << >>
  /\ ~game_over
  /\ bird' = move_bird(bird)
  /\ pc' = "pipes_move"
  /\ UNCHANGED <<pipes, score, game_over, pipe_spawn_counter, events>>

\* Game.run: for pipe in self.pipes: pipe.move()
PipesMove ==
  /\ pc = "pipes_move"
  /\ pipes' = [i \in DOMAIN pipes |-> move_pipe(pipes[i])]
  /\ pc' = "manage_pipes"
  /\ UNCHANGED <<bird, score, game_over, pipe_spawn_counter, events>>

\* Game._manage_pipes
ManagePipes ==
  /\ pc = "manage_pipes"
  /\ \E gap_y \in GapChoices :
       LET counter == pipe_spawn_counter + 1
           spawned == spawn_pipes(pipes, counter, gap_y)
           kept    == prune_pipes(spawned)
       IN  /\ pipe_spawn_counter' = IF counter > SPAWN_THRESHOLD THEN 0 ELSE counter
           /\ pipes' = mark_passed(kept, bird)
           /\ score' = score_after(kept, bird, score)
  /\ pc' = "check_collisions"
  /\ UNCHANGED <<bird, game_over, events>>

\* Game._check_collisions
CheckCollisions ==
  /\ pc = "check_collisions"
  /\ game_over' = (game_over \/ collision_detected(bird, pipes))
  /\ pc' = "draw"
  /\ UNCHANGED <<bird, pipes, score, pipe_spawn_counter, events>>

\* Game.run: _draw_elements, display.flip and clock.tick end a Playing frame
DrawElements ==
  /\ pc = "draw"
  /\ pc' = "poll"
  /\ UNCHANGED <<bird, pipes, score, game_over, pipe_spawn_counter, events>>

\* a frame loop that also runs the collision check in an Over frame
DisplayGameOver_ChecksCollisions ==
  /\ pc = "handle"
  /\ events = << >>
  /\ game_over
  /\ pc' = "check_collisions"
  /\ UNCHANGED <<bird, pipes, score, game_over, pipe_spawn_counter, events>>

\* Game.run: _display_game_over, display.flip and clock.tick make an Over frame
DisplayGameOver ==
  /\ pc = "handle"
  /\ events = << >>
  /\ game_over
  /\ pc' = "poll"
  /\ UNCHANGED <<bird, pipes, score, game_over, pipe_spawn_counter, events>>

Next ==
  \/ Poll
  \/ HandleEvent
  \/ BirdMove
  \/ PipesMove
  \/ ManagePipes
  \/ CheckCollisions
  \/ DrawElements
  \/ DisplayGameOver

Spec == Init /\ [][Next]_vars

\* the loop of Game.run never pauses: clock.tick returns and every call of a
\* frame returns, so a step that can be taken is taken
FairSpec == Spec /\ WF_vars(Next)

TypeOK ==
  /\ bird.x = BIRD_X /\ bird.size = BIRD_SIZE
  /\ bird.y \in Int /\ bird.velocity \in Int
  /\ score \in 0..MaxScore
  /\ game_over \in BOOLEAN
  /\ pipe_spawn_counter \in 0..SPAWN_THRESHOLD
  /\ events \in EventLists
  /\ pc \in {"poll", "handle", "pipes_move", "manage_pipes", "check_collisions", "draw", "quit"}

(***************************************************************************)
(* Properties                                                              *)
(***************************************************************************)
\* the step that handles a SPACE keydown while the game is Over
RestartHandled ==
  pc = "handle" /\ events # << >> /\ Head(events) = "SPACE" /\ game_over

\* the step that handles a SPACE keydown while the game is Playing
JumpHandled ==
  pc = "handle" /\ events # << >> /\ Head(events) = "SPACE" /\ ~game_over

\* the step that runs Bird.move
BirdMoveStep == pc = "handle" /\ pc' = "pipes_move"

\* pipe i before a step and pipe j after it are the same Pipe object:
\* _manage_pipes keeps the x of the pipes it keeps (and no two pipes share
\* an x), every other step keeps each pipe at its index
SamePipe(i, j) ==
  IF pc = "manage_pipes" THEN pipes[i].x = pipes'[j].x ELSE i = j

\* C1: game_over is False after construction; it turns True only in the
\* collision check of a frame that detects a collision, and turns False
\* only when a SPACE keydown is handled while Over.
C1_GameOverTransitions ==
  /\ game_over = FALSE
  /\ [][ /\ (~game_over /\ game_over') =>
              (pc = "check_collisions" /\ collision_detected(bird, pipes))
         /\ (game_over /\ ~game_over') => RestartHandled ]_vars

C1_Witness == game_over /\ pc = "draw"

\* C2: while the game is Over, every step other than the handling of a
\* restart input leaves the bird's y and velocity and every pipe's x
\* unchanged and neither adds nor removes a pipe.
C2_FrozenWhileOver ==
  [][ (game_over /\ ~RestartHandled) =>
        /\ bird'.y = bird.y
        /\ bird'.velocity = bird.velocity
        /\ Len(pipes') = Len(pipes)
        /\ \A i \in DOMAIN pipes : pipes'[i].x = pipes[i].x ]_vars

C2_Witness ==
  /\ game_over /\ pc = "handle" /\ events = << >>
  /\ pipes # << >>

\* C3: handling a restart input while Over yields the process-start state:
\* bird at x=50, y=SCREEN_HEIGHT//2, velocity 0, no pipes, spawn counter 0,
\* score 0, state Playing.
C3_RestartEqualsStart ==
  [][ RestartHandled =>
        /\ bird'.x = 50
        /\ bird'.y = Half * (SCREEN_HEIGHT \div 2)
        /\ bird'.velocity = 0
        /\ bird'.size = BIRD_SIZE
        /\ pipes' = << >>
        /\ pipe_spawn_counter' = 0
        /\ score' = 0
        /\ game_over' = FALSE ]_vars

C3_Witness ==
  /\ RestartHandled
  /\ score > 0 /\ pipes # << >> /\ pipe_spawn_counter > 0
  /\ bird.y # Half * (SCREEN_HEIGHT \div 2)

\* the pipes whose passed flag is true after a step of _manage_pipes and
\* was not true before it
FlagFlips ==
  { j \in DOMAIN pipes' :
      /\ pipes'[j].passed
      /\ ~\E i \in DOMAIN pipes : pipes[i].x = pipes'[j].x /\ pipes[i].passed }

\* C4: in a Playing frame the score grows by exactly the number of pipes
\* whose passed flag turned from false to true in that frame (all of it in
\* _manage_pipes; no other step of a Playing frame changes the score).
C4_ScoreCountsFlips ==
  [][ /\ pc = "manage_pipes" => score' - score = Cardinality(FlagFlips)
      /\ (~game_over /\ pc # "manage_pipes") => score' = score ]_vars

C4_Witness ==
  /\ pc = "check_collisions"
  /\ score >= 1
  /\ \E i \in DOMAIN pipes :
        /\ pipes[i].passed
        /\ pipes[i].x + PIPE_WIDTH - pipes[i].velocity >= bird.x

\* C5: a pipe's passed flag is false until its trailing edge is past the
\* bird (x + PIPE_WIDTH < bird.x), is true from the scoring step of the
\* first frame in which that holds, and never turns back to false.
C5_PassedOnce ==
  /\ [](\A i \in DOMAIN pipes :
          /\ pipes[i].passed => pipes[i].x + PIPE_WIDTH < bird.x
          /\ (pc # "manage_pipes" /\ pipes[i].x + PIPE_WIDTH < bird.x) => pipes[i].passed)
  /\ [][ \A i \in DOMAIN pipes : \A j \in DOMAIN pipes' :
           (SamePipe(i, j) /\ pipes[i].passed) => pipes'[j].passed ]_vars

C5_Witness ==
  /\ pc = "draw"
  /\ \E i \in DOMAIN pipes :
        /\ pipes[i].passed
        /\ pipes[i].x + PIPE_WIDTH - pipes[i].velocity < bird.x

\* C6: the score never decreases except in the step that handles a restart
\* input, which sets it to 0.
C6_ScoreMonotone ==
  [][ score' < score => (RestartHandled /\ score' = 0) ]_vars

C6_Witness == ~game_over /\ pc = "draw" /\ score >= 2

\* the bird's bounding box, with its exact (half-pixel) y, strictly
\* overlaps the rectangle r
ExactOverlap(b, r) ==
  /\ b.x < r.left + r.w
  /\ b.x + b.size > r.left
  /\ b.y < Half * (r.top + r.h)
  /\ b.y + Half * b.size > Half * r.top

\* C7: after the collision check of a Playing frame the game is Over iff
\* the bird's box strictly overlaps a barrier of some pipe, or y < 0, or
\* y + size > SCREEN_HEIGHT.
C7_CollisionIff ==
  pc = "draw" =>
    (game_over <=>
       \/ \E i \in DOMAIN pipes :
             \/ ExactOverlap(bird, get_upper_rect(pipes[i]))
             \/ ExactOverlap(bird, get_lower_rect(pipes[i]))
       \/ bird.y < 0
       \/ bird.y + Half * bird.size > Half * SCREEN_HEIGHT)

\* pipe i is in the list before a step of _manage_pipes and not after it
Removed(i) == ~\E j \in DOMAIN pipes' : pipes'[j].x = pipes[i].x

\* C8 (as claimed): no pipe is removed before its left edge has left the
\* screen (x < 0), and no pipe stays in the list more than one Playing
\* frame after the frame in which x < 0 first held.
C8_LeadingEdgeRemoval ==
  /\ [][ pc = "manage_pipes" =>
           \A i \in DOMAIN pipes : Removed(i) => pipes[i].x < 0 ]_vars
  /\ [](\A i \in DOMAIN pipes : pipes[i].x >= 2 * pipes[i].velocity)

\* C8 (amended): no pipe is removed before its right edge has left the
\* screen (x + PIPE_WIDTH < 0), and a pipe for which that holds is removed
\* by _manage_pipes in the same Playing frame.
C8_TrailingEdgeRemoval ==
  /\ [][ pc = "manage_pipes" =>
           \A i \in DOMAIN pipes : Removed(i) => pipes[i].x + PIPE_WIDTH < 0 ]_vars
  /\ [](pc # "manage_pipes" =>
           \A i \in DOMAIN pipes : pipes[i].x + PIPE_WIDTH >= 0)

C8_Witness ==
  /\ pc = "manage_pipes"
  /\ \E i \in DOMAIN pipes : pipes[i].x + PIPE_WIDTH < 0

\* C9: a jump input handled while Playing sets the velocity to exactly
\* JUMP_STRENGTH whatever it was, and leaves the state Playing and the
\* bird's y, the pipes and the score unchanged.
C9_JumpOverwrites ==
  [][ JumpHandled =>
        /\ bird'.velocity = Half * JUMP_STRENGTH
        /\ bird'.y = bird.y
        /\ pipes' = pipes
        /\ score' = score
        /\ game_over' = FALSE ]_vars

C9_Witness == JumpHandled /\ bird.velocity = Half * JUMP_STRENGTH

\* C10: Bird.move raises the velocity by exactly GRAVITY, and when the
\* velocity is positive after gravity is added the bird's y ends the frame
\* strictly greater; between two moves only a jump or a restart changes
\* the bird, so once the velocity is positive y never drops and the
\* velocity stays positive until the next jump or restart.
C10_MonotonicFall ==
  [][ /\ BirdMoveStep =>
           /\ bird'.velocity = bird.velocity + GRAVITY
           /\ bird'.velocity > 0 => bird'.y > bird.y
      /\ (~BirdMoveStep /\ ~JumpHandled /\ ~RestartHandled) => bird' = bird
      /\ (bird.velocity > 0 /\ ~JumpHandled /\ ~RestartHandled) =>
           (bird'.velocity > 0 /\ bird'.y >= bird.y) ]_vars

C10_Witness == pc = "pipes_move" /\ bird.velocity > 0 /\ bird.velocity < MinFallTap

\* C11: a Playing frame runs input poll, bird movement, pipe movement,
\* _manage_pipes, collision check and drawing in that order, each once; the
\* collision check comes after all movement of the frame and nothing moves
\* between it and the next poll; an Over frame runs no movement and no
\* collision check.
C11_FrameOrder ==
  /\ [][ /\ pc = "poll" => pc' = "handle"
         /\ pc = "handle" =>
              \/ pc' = "handle" /\ events # << >>
              \/ pc' = "quit" /\ events # << >>
              \/ pc' = "pipes_move" /\ events = << >> /\ ~game_over
                   /\ bird' # bird /\ pipes' = pipes
              \/ pc' = "poll" /\ events = << >> /\ game_over
         /\ pc = "pipes_move" => pc' = "manage_pipes" /\ bird' = bird
         /\ pc = "manage_pipes" => pc' = "check_collisions" /\ bird' = bird
         /\ pc = "check_collisions" =>
              pc' = "draw" /\ bird' = bird /\ pipes' = pipes /\ score' = score
         /\ pc = "draw" =>
              pc' = "poll" /\ bird' = bird /\ pipes' = pipes /\ game_over' = game_over
       ]_vars
  /\ [](pc \in {"pipes_move", "manage_pipes", "check_collisions"} => ~game_over)

C11_Witness ==
  pc = "check_collisions" /\ pipes # << >> /\ collision_detected(bird, pipes)

\* pipe j of the list after a step of _manage_pipes was created by it
Spawned(j) == ~\E i \in DOMAIN pipes : pipes[i].x = pipes'[j].x

\* C12: _manage_pipes adds one to the spawn counter; exactly when the result
\* exceeds 90 it appends one pipe at x = SCREEN_WIDTH at the end of the list
\* and resets the counter to 0; no other step changes the counter except a
\* reset.  Hence the last pipe is as many moves from SCREEN_WIDTH as the
\* counter says and neighbouring pipes are 91 moves apart.
C12_SpawnEvery91 ==
  /\ [][ /\ (pc = "manage_pipes" /\ pipe_spawn_counter + 1 > 90) =>
              /\ pipe_spawn_counter' = 0
              /\ pipes' # << >>
              /\ \A j \in DOMAIN pipes' : Spawned(j) <=> j = Len(pipes')
              /\ pipes'[Len(pipes')].x = SCREEN_WIDTH
         /\ (pc = "manage_pipes" /\ pipe_spawn_counter + 1 <= 90) =>
              /\ pipe_spawn_counter' = pipe_spawn_counter + 1
              /\ \A j \in DOMAIN pipes' : ~Spawned(j)
         /\ (pc # "manage_pipes" /\ ~RestartHandled) =>
              /\ pipe_spawn_counter' = pipe_spawn_counter
              /\ Len(pipes') = Len(pipes)
       ]_vars
  /\ [](pc # "manage_pipes" =>
          /\ pipes # << >> =>
               pipes[Len(pipes)].x = SCREEN_WIDTH + pipe_spawn_counter * PIPE_VELOCITY
          /\ \A i \in 1..(Len(pipes) - 1) :
               pipes[i].x = pipes[i + 1].x + 91 * PIPE_VELOCITY)

C12_Witness ==
  /\ pc = "check_collisions"
  /\ pipe_spawn_counter = 0
  /\ Len(pipes) = 2
  /\ pipes[2].x = SCREEN_WIDTH

\* C13 (as claimed): a pipe spawned in a frame is advanced by its speed
\* once in that frame, so it ends the frame at SCREEN_WIDTH + velocity.
C13_SpawnThenAdvance ==
  [][ pc = "manage_pipes" =>
        \A j \in DOMAIN pipes' :
           Spawned(j) => pipes'[j].x = SCREEN_WIDTH + pipes'[j].velocity ]_vars

\* C13 (amended): the order is advance, spawn, remove, score.  The advance
\* step moves every pipe already in the list by its velocity and precedes
\* _manage_pipes; a pipe spawned in a frame is not advanced in it and ends
\* the frame at x = SCREEN_WIDTH, not passed; after _manage_pipes no pipe is
\* off-screen and every pipe whose right edge is behind the bird is passed.
C13_AdvanceThenSpawn ==
  [][ /\ pc = "pipes_move" =>
           /\ pc' = "manage_pipes"
           /\ Len(pipes') = Len(pipes)
           /\ \A i \in DOMAIN pipes : pipes'[i].x = pipes[i].x + pipes[i].velocity
      /\ pc = "manage_pipes" =>
           /\ \A j \in DOMAIN pipes' :
                /\ Spawned(j) => (pipes'[j].x = SCREEN_WIDTH /\ ~pipes'[j].passed)
                /\ pipes'[j].x + PIPE_WIDTH >= 0
                /\ pipes'[j].x + PIPE_WIDTH < bird.x => pipes'[j].passed
           /\ pipe_spawn_counter = 90 => \E j \in DOMAIN pipes' : Spawned(j)
    ]_vars

C13_Witness ==
  /\ pc = "check_collisions"
  /\ pipe_spawn_counter = 0
  /\ Len(pipes) = 1
  /\ pipes[1].x = SCREEN_WIDTH

\* C14: a pipe is off-screen exactly when x + PIPE_WIDTH < 0; _manage_pipes
\* removes a pipe only then, and in the first frame in which it holds, so
\* outside _manage_pipes every pipe has x + PIPE_WIDTH >= 0; the pipes that
\* stay keep their relative order, and a removal does not change the score.
C14_OffscreenRemoval ==
  /\ [](\A i \in DOMAIN pipes :
          /\ off_screen(pipes[i]) <=> pipes[i].x + PIPE_WIDTH < 0
          /\ pc # "manage_pipes" => pipes[i].x + PIPE_WIDTH >= 0)
  /\ [][ pc = "manage_pipes" =>
           /\ \A i \in DOMAIN pipes :
                Removed(i) <=> pipes[i].x + PIPE_WIDTH < 0
           /\ \A i1, i2 \in DOMAIN pipes : \A j1, j2 \in DOMAIN pipes' :
                (i1 < i2 /\ pipes'[j1].x = pipes[i1].x /\ pipes'[j2].x = pipes[i2].x)
                  => j1 < j2
           /\ (\E i \in DOMAIN pipes : Removed(i)) =>
                score' = score + Cardinality(FlagFlips)
       ]_vars

C14_Witness ==
  /\ pc = "check_collisions"
  /\ score >= 1
  /\ Len(pipes) = 1
  /\ ~pipes[1].passed

\* C15 (as claimed): the pipe list, in stored order, is sorted by x
\* descending.
C15_SortedDescending ==
  \A i, j \in DOMAIN pipes : i < j => pipes[i].x >= pipes[j].x

\* C15 (amended): the pipe list, in stored order (spawn order, oldest
\* first), is sorted by x strictly ascending.
C15_SortedAscending ==
  \A i, j \in DOMAIN pipes : i < j => pipes[i].x < pipes[j].x

C15_Witness == Len(pipes) = 2 /\ pc = "poll"

\* C16: a pipe's gap_y never changes after creation and lies in
\* [PIPE_GAP, SCREEN_HEIGHT - PIPE_GAP], hence in
\* [PIPE_GAP/2, SCREEN_HEIGHT - PIPE_GAP/2]; its upper barrier has
\* non-negative height and its lower barrier starts at or above the bottom
\* of the screen.
C16_GapInRange ==
  /\ [](\A i \in DOMAIN pipes :
          /\ PIPE_GAP <= pipes[i].gap_y
          /\ pipes[i].gap_y <= SCREEN_HEIGHT - PIPE_GAP
          /\ PIPE_GAP <= 2 * pipes[i].gap_y
          /\ 2 * pipes[i].gap_y <= 2 * SCREEN_HEIGHT - PIPE_GAP
          /\ get_upper_rect(pipes[i]).h >= 0
          /\ get_lower_rect(pipes[i]).top <= SCREEN_HEIGHT)
  /\ [][ \A i \in DOMAIN pipes : \A j \in DOMAIN pipes' :
           SamePipe(i, j) => pipes'[j].gap_y = pipes[i].gap_y ]_vars

C16_Witness ==
  \E i \in DOMAIN pipes :
     pipes[i].gap_y = SCREEN_HEIGHT - PIPE_GAP /\ pipes[i].x < SCREEN_WIDTH

\* C17: a SPACE keydown handled while Playing only sets the bird's velocity;
\* handled while Over it only resets the game, and the fresh bird's
\* velocity is 0 after that event; the events behind it in the same poll
\* are then handled in the new Playing session.
C17_JumpXorRestart ==
  [][ /\ JumpHandled =>
           /\ bird' = [bird EXCEPT !.velocity = Half * JUMP_STRENGTH]
           /\ pipes' = pipes /\ score' = score
           /\ pipe_spawn_counter' = pipe_spawn_counter
           /\ game_over' = FALSE
           /\ pc' = "handle" /\ events' = Tail(events)
      /\ RestartHandled =>
           /\ bird'.velocity = 0
           /\ bird'.y = Half * (SCREEN_HEIGHT \div 2)
           /\ pipes' = << >> /\ score' = 0
           /\ game_over' = FALSE
           /\ pc' = "handle" /\ events' = Tail(events)
    ]_vars

C17_Witness ==
  RestartHandled /\ Len(events) = 2 /\ events[2] = "SPACE" /\ score > 0

\* the points scored by pipes that are no longer in the list
ScoredAndGone == score - Cardinality({i \in DOMAIN pipes : pipes[i].passed})

\* C18: a pipe removed as off-screen has passed = TRUE, and each removal
\* moves exactly one point from the pipes in the list to the pipes that are
\* gone; so the score is the number of pipes of the session that have been
\* behind the bird at a scoring step (those in the list with passed = TRUE
\* plus those removed).
C18_RemovedWereScored ==
  /\ ScoredAndGone = 0
  /\ [](ScoredAndGone >= 0)
  /\ [][ /\ pc = "manage_pipes" =>
              /\ \A i \in DOMAIN pipes : Removed(i) => pipes[i].passed
              /\ ScoredAndGone' - ScoredAndGone =
                   Cardinality({i \in DOMAIN pipes : Removed(i)})
         /\ (pc # "manage_pipes" /\ ~RestartHandled) => ScoredAndGone' = ScoredAndGone
         /\ RestartHandled => ScoredAndGone' = 0
       ]_vars

C18_Witness == pc = "check_collisions" /\ ScoredAndGone = 1 /\ Len(pipes) = 1

\* C19: the list never holds more than 2 pipes and the spawn counter stays
\* in 0..90; at the end of a frame every pipe has x in -PIPE_WIDTH ..
\* SCREEN_WIDTH (121 moves of 4), and the older of two pipes is 91 moves to
\* the left of the newer one.
C19_AtMostTwoPipes ==
  /\ Len(pipes) <= 2
  /\ pipe_spawn_counter >= 0 /\ pipe_spawn_counter <= 90
  /\ pc # "manage_pipes" =>
       \A i \in DOMAIN pipes :
          /\ pipes[i].x >= -PIPE_WIDTH /\ pipes[i].x <= SCREEN_WIDTH
          /\ pipes[i].x >= SCREEN_WIDTH + 120 * pipes[i].velocity
  /\ Len(pipes) = 2 => pipes[1].x = pipes[2].x + 91 * pipes[2].velocity

C19_Witness == Len(pipes) = 2 /\ pipes[1].x = -PIPE_WIDTH /\ pc = "draw"

\* frames keep executing: the event queue is polled again and again
FramesKeepRunning == []<><<Poll>>_vars

\* from some point on no jump input is handled
NoMoreJumps == <>[][~JumpHandled]_vars

\* a frame boundary of a session in which no jump has been handled and no
\* pipe has been spawned: after n frames the velocity is n * GRAVITY and the
\* bird has fallen GRAVITY * n(n+1)/2
IdleSession ==
  /\ pipes = << >> /\ score = 0
  /\ bird.velocity = GRAVITY * pipe_spawn_counter
  /\ 2 * (bird.y - Half * (SCREEN_HEIGHT \div 2)) =
       GRAVITY * pipe_spawn_counter * (pipe_spawn_counter + 1)

\* C20: if frames keep executing and from some point on no jump input is
\* handled, every Playing state is followed by an Over state.  The fall is
\* bounded: every Playing frame without a jump runs Bird.move, which raises
\* the velocity by GRAVITY, and a bird that is still Playing at the end of
\* a frame cannot have gained more speed than a fall through the whole
\* height of the screen gives.  A session without any jump is Over before
\* the frame that would spawn its first pipe, with score 0.
C20_EventuallyOver ==
  /\ (FramesKeepRunning /\ NoMoreJumps) => []<>game_over
  /\ [][ (pc = "handle" /\ events = << >> /\ ~game_over) =>
           (BirdMoveStep /\ bird'.velocity = bird.velocity + GRAVITY) ]_vars
  /\ []((~game_over /\ pc = "poll" /\ bird.velocity > 0) =>
          bird.velocity * (bird.velocity + GRAVITY) <= 2 * GRAVITY * Half * SCREEN_HEIGHT)
  /\ []((IdleSession /\ ~game_over) => pipe_spawn_counter < SPAWN_THRESHOLD)

C20_Witness ==
  IdleSession /\ game_over /\ pipe_spawn_counter > 0 /\ pc = "poll"

====
